---- MODULE Spec2Model ----
(***************************************************************************)
(* Model of the DockerBackend construct (src/lib/docker-backend.ts).       *)
(*                                                                         *)
(* The constructor declares resources into its scope statement by          *)
(* statement; pc is the constructor's position (the statement it runs      *)
(* next).  Once the constructor has returned (pc = "done") the public      *)
(* enable*Access methods may be called in any order, any number of times.  *)
(* A throw inside the constructor leaves pc = "failed" and the scope as it *)
(* was at the throw.                                                       *)
(*                                                                         *)
(* An optional resource is a sequence of length 0 (not declared) or 1.     *)
(*                                                                         *)
(* SpecTwice constructs a DockerBackend a second time, in a fresh scope,   *)
(* after the first construction has ended; run and firstRun carry what the *)
(* first construction was given and what it declared.                      *)
(*                                                                         *)
(* SpecPipeline is the StaticWebsitePipeline construct                     *)
(* (src/unnamed/part_001); its variables start with swp.                   *)
(***************************************************************************)
EXTENDS Integers, Sequences, FiniteSets, TLC

VARIABLES
    backendId,             \* the construct id handed to the constructor
    props,                 \* the DockerBackendProps handed to the constructor
    defaults,              \* the module's DEFAULT_PROPS object, shared by all
    run,                   \* 1 in the first construction, 2 in the second
    firstRun,              \* what the first construction ended with
    pc,                    \* position of the constructor
    error,                 \* the thrown value, <<>> while nothing was thrown
    declared,              \* ids of the resources declared so far, in order
    vpc,
    ecsCluster,
    albSecurityGroup,
    loadBalancer,
    httpListener,
    httpsListener,
    certificates,
    recordSets,
    taskDefinition,
    fargateSecurityGroup,
    fargateService,
    scaling,
    albTarget,
    albTargetGroup,
    calls,                 \* history: the enable*Access methods called so far
    swpProps,              \* the StaticWebsitePipelineProps
    swpPc,                 \* position of the StaticWebsitePipeline constructor
    swpStages,             \* its local variable stages
    swpDeclared,           \* resources declared in its scope, in order
    swpBuildProject,
    swpPipeline,
    dbpProps,              \* the DockerBackendPipelineProps
    dbpPc,                 \* position of the DockerBackendPipeline constructor
    dbpError,              \* what its constructor threw, <<>> while nothing
    dbpDeclared,           \* children declared in its scope, in order
    siteProps,             \* the StaticWebsiteProps
    siteRegion,            \* region of the stack the StaticWebsite is in
    sitePc,                \* position of the StaticWebsite constructor
    siteDeclared,          \* resources declared in its scope, in order
    contentBucket,
    loggingBucket,
    siteCertificate,
    siteDistribution,
    siteRecordSet,
    siteErrors             \* what validate() returned, once it ran

\* the StaticWebsitePipeline construct
swpVars == <<swpProps, swpPc, swpStages, swpDeclared, swpBuildProject, swpPipeline>>

\* the DockerBackendPipeline construct
dbpVars == <<dbpProps, dbpPc, dbpError, dbpDeclared>>

\* the StaticWebsite construct
siteVars == <<siteProps, siteRegion, sitePc, siteDeclared, contentBucket,
              loggingBucket, siteCertificate, siteDistribution, siteRecordSet,
              siteErrors>>

\* what no statement of a DockerBackend touches: its arguments' identity, the
\* shared defaults, the earlier construction and the other constructs
untouched == <<backendId, defaults, run, firstRun, swpVars, dbpVars, siteVars>>

vars == <<untouched, props, pc, error, declared, vpc, ecsCluster, albSecurityGroup,
          loadBalancer, httpListener, httpsListener, certificates, recordSets,
          taskDefinition, fargateSecurityGroup, fargateService, scaling,
          albTarget, albTargetGroup, calls>>

----------------------------------------------------------------------------
(* Bounds *)

\* most enable*Access calls made on one construct
MaxGrants == 3

----------------------------------------------------------------------------
(* Values of optional properties *)

\* an omitted optional string / object property
Undefined == "undefined"

\* an omitted optional number property
UndefinedNum == -1

\* JavaScript truthiness of an optional string: undefined and "" are falsy
Truthy(s) == s # Undefined /\ s # ""

\* JavaScript truthiness of an optional object (a hosted zone, an image)
TruthyObj(o) == o # Undefined

\* faulty variant of OrDefault: n ?? d, which lets a supplied 0 through
OrDefault_Nullish(n, d) == IF n = UndefinedNum THEN d ELSE n

\* JavaScript  n || d  on an optional number: undefined and 0 are falsy
OrDefault(n, d) == IF n = UndefinedNum \/ n = 0 THEN d ELSE n

\* JavaScript  o || d  on an optional object
OrDefaultObj(o, d) == IF TruthyObj(o) THEN o ELSE d

DEFAULT_PROPS ==
    [ appName               |-> "DockerBackend",
      domainName            |-> Undefined,
      hostedZone            |-> Undefined,
      certificateArn        |-> Undefined,
      cpu                   |-> 512,
      memory                |-> 1024,
      containerPort         |-> 80,
      healthCheckPath       |-> "/",
      initialContainerImage |-> "nginx" ]

\* the inputs the model draws from
ConstructIds     == {"backend", "api"}
AppNames         == {"svc", "docker-backend"}
DomainNames      == {Undefined, "", "api"}
HostedZones      == {Undefined, "example.com"}
CertificateArns  == {Undefined, "", "arn:example"}
CpuValues        == {UndefinedNum, 0, 1024}
MemoryValues     == {UndefinedNum, 0, 2048}
ContainerPorts   == {UndefinedNum, 0, 80, 443, 8080, 8443}
HealthCheckPaths == {Undefined, "/healthcheck.html"}
ContainerImages  == {Undefined, "httpd"}

DockerBackendProps ==
    [ appName               : AppNames,
      domainName            : DomainNames,
      hostedZone            : HostedZones,
      certificateArn        : CertificateArns,
      cpu                   : CpuValues,
      memory                : MemoryValues,
      containerPort         : ContainerPorts,
      healthCheckPath       : HealthCheckPaths,
      initialContainerImage : ContainerImages ]

----------------------------------------------------------------------------
(* Helpers of the declared graph *)

Resource(id, type) == [id |-> id, type |-> type]

\* SecurityGroup.addIngressRule for a rule that is not yet in the group
AddIngressRule(sg, peer, port) ==
    [sg EXCEPT !.ingress = Append(@, [peer |-> peer, port |-> port])]

\* a listener opened to the world adds its port to the load balancer's
\* security group unless the same rule is already there
OpenListenerPort(sg, port) ==
    IF \E i \in 1..Len(sg.ingress) :
           sg.ingress[i] = [peer |-> "0.0.0.0/0", port |-> port]
    THEN sg
    ELSE AddIngressRule(sg, "0.0.0.0/0", port)

----------------------------------------------------------------------------
(* Init: a construct about to be built from any input *)

\* no StaticWebsitePipeline is being constructed
swpIdle ==
    /\ swpPc = "idle"
    /\ swpProps = <<>>
    /\ swpStages = <<>>
    /\ swpDeclared = <<>>
    /\ swpBuildProject = <<>>
    /\ swpPipeline = <<>>

\* no DockerBackendPipeline is being constructed
dbpIdle ==
    /\ dbpPc = "idle"
    /\ dbpProps = <<>>
    /\ dbpError = <<>>
    /\ dbpDeclared = <<>>

\* no StaticWebsite is being constructed
siteIdle ==
    /\ sitePc = "idle"
    /\ siteProps = <<>>
    /\ siteRegion = "us-east-1"
    /\ siteDeclared = <<>>
    /\ contentBucket = <<>>
    /\ loggingBucket = <<>>
    /\ siteCertificate = <<>>
    /\ siteDistribution = <<>>
    /\ siteRecordSet = <<>>
    /\ siteErrors = <<>>

\* constructor(scope, id, props = DEFAULT_PROPS), about to run its first
\* statement in a fresh scope
Init ==
    /\ backendId \in ConstructIds
    /\ props \in DockerBackendProps \cup {DEFAULT_PROPS}
    /\ defaults = DEFAULT_PROPS
    /\ run = 1
    /\ firstRun = <<>>
    /\ swpIdle
    /\ dbpIdle
    /\ siteIdle
    /\ pc = "vpc"
    /\ error = <<>>
    /\ declared = <<>>
    /\ vpc = <<>>
    /\ ecsCluster = <<>>
    /\ albSecurityGroup = <<>>
    /\ loadBalancer = <<>>
    /\ httpListener = <<>>
    /\ httpsListener = <<>>
    /\ certificates = <<>>
    /\ recordSets = <<>>
    /\ taskDefinition = <<>>
    /\ fargateSecurityGroup = <<>>
    /\ fargateService = <<>>
    /\ scaling = <<>>
    /\ albTarget = <<>>
    /\ albTargetGroup = <<>>
    /\ calls = <<>>

----------------------------------------------------------------------------
(* The constructor *)

\* faulty variant of NewVpc: the constructor first merges the sizing it was
\* given into the shared DEFAULT_PROPS object
NewVpc_MergesIntoDefaults ==
    /\ pc = "vpc"
    /\ defaults' = [defaults EXCEPT
                      !.cpu           = OrDefault(props.cpu, @),
                      !.memory        = OrDefault(props.memory, @),
                      !.containerPort = OrDefault(props.containerPort, @)]
    /\ vpc' = << [id |-> "vpc", maxAzs |-> 3] >>
    /\ declared' = Append(declared, Resource("vpc", "Vpc"))
    /\ pc' = "cluster"
    /\ UNCHANGED <<backendId, run, firstRun, swpVars, dbpVars, siteVars,
                   props, error, ecsCluster, albSecurityGroup, loadBalancer,
                   httpListener, httpsListener, certificates, recordSets,
                   taskDefinition, fargateSecurityGroup, fargateService,
                   scaling, albTarget, albTargetGroup, calls>>

\* new Vpc(this, "vpc", { maxAzs: 3 })
NewVpc ==
    /\ pc = "vpc"
    /\ vpc' = << [id |-> "vpc", maxAzs |-> 3] >>
    /\ declared' = Append(declared, Resource("vpc", "Vpc"))
    /\ pc' = "cluster"
    /\ UNCHANGED <<untouched, props, error, ecsCluster, albSecurityGroup, loadBalancer,
                   httpListener, httpsListener, certificates, recordSets,
                   taskDefinition, fargateSecurityGroup, fargateService,
                   scaling, albTarget, albTargetGroup, calls>>

\* faulty variant of NewCluster: clusterName is not passed
NewCluster_Unnamed ==
    /\ pc = "cluster"
    /\ ecsCluster' = << [id |-> "ecs-cluster", vpc |-> vpc[1].id,
                         clusterName |-> Undefined] >>
    /\ declared' = Append(declared, Resource("ecs-cluster", "Cluster"))
    /\ pc' = "alb"
    /\ UNCHANGED <<untouched, props, error, vpc, albSecurityGroup, loadBalancer,
                   httpListener, httpsListener, certificates, recordSets,
                   taskDefinition, fargateSecurityGroup, fargateService,
                   scaling, albTarget, albTargetGroup, calls>>

\* this.ecsCluster = new Cluster(this, "ecs-cluster", {...})
NewCluster ==
    /\ pc = "cluster"
    /\ ecsCluster' = << [id |-> "ecs-cluster", vpc |-> vpc[1].id,
                         clusterName |-> props.appName] >>
    /\ declared' = Append(declared, Resource("ecs-cluster", "Cluster"))
    /\ pc' = "alb"
    /\ UNCHANGED <<untouched, props, error, vpc, albSecurityGroup, loadBalancer,
                   httpListener, httpsListener, certificates, recordSets,
                   taskDefinition, fargateSecurityGroup, fargateService,
                   scaling, albTarget, albTargetGroup, calls>>

\* faulty variant of configureAlb: the load balancer is left internal
configureAlb_Internal ==
    /\ pc = "alb"
    /\ albSecurityGroup' =
         << AddIngressRule([id |-> "alb-sg", vpc |-> vpc[1].id,
                            allowAllOutbound |-> TRUE, ingress |-> <<>>],
                           "0.0.0.0/0", 443) >>
    /\ loadBalancer' = << [id |-> "loadbalancer", vpc |-> vpc[1].id,
                           internetFacing |-> FALSE,
                           type |-> "application",
                           loadBalancerName |-> props.appName,
                           securityGroups |-> << "alb-sg" >>] >>
    /\ declared' = declared \o << Resource("alb-sg", "SecurityGroup"),
                                  Resource("loadbalancer", "ApplicationLoadBalancer") >>
    /\ pc' = "listener"
    /\ UNCHANGED <<untouched, props, error, vpc, ecsCluster,
                   httpListener, httpsListener, certificates, recordSets,
                   taskDefinition, fargateSecurityGroup, fargateService,
                   scaling, albTarget, albTargetGroup, calls>>

\* this.loadBalancer = this.configureAlb(vpc, props.appName)
configureAlb ==
    /\ pc = "alb"
    /\ albSecurityGroup' =
         << AddIngressRule([id |-> "alb-sg", vpc |-> vpc[1].id,
                            allowAllOutbound |-> TRUE, ingress |-> <<>>],
                           "0.0.0.0/0", 443) >>
    /\ loadBalancer' = << [id |-> "loadbalancer", vpc |-> vpc[1].id,
                           internetFacing |-> TRUE,
                           type |-> "application",
                           loadBalancerName |-> props.appName,
                           securityGroups |-> << "alb-sg" >>] >>
    /\ declared' = declared \o << Resource("alb-sg", "SecurityGroup"),
                                  Resource("loadbalancer", "ApplicationLoadBalancer") >>
    /\ pc' = "listener"
    /\ UNCHANGED <<untouched, props, error, vpc, ecsCluster,
                   httpListener, httpsListener, certificates, recordSets,
                   taskDefinition, fargateSecurityGroup, fargateService,
                   scaling, albTarget, albTargetGroup, calls>>

\* faulty variant of RedirectProps: the redirect points back at port 80
RedirectProps_ToPort80 ==
    [ sourceProtocol |-> "HTTP",
      sourcePort     |-> 80,
      targetProtocol |-> "HTTPS",
      targetPort     |-> 80 ]

\* loadBalancer.addRedirect({...}): the arguments of the redirect listener
RedirectProps ==
    [ sourceProtocol |-> "HTTP",
      sourcePort     |-> 80,
      targetProtocol |-> "HTTPS",
      targetPort     |-> 443 ]

\* loadBalancer.addListener("listener", {...}): the secure listener's arguments
HttpsListenerProps(certs) ==
    [ port         |-> 443,
      protocol     |-> "HTTPS",
      certificates |-> certs,
      sslPolicy    |-> "RECOMMENDED" ]

\* faulty variant of NewCertificatePath: the hosted zone is not tested
NewCertificatePath_DomainOnly(domainName, hostedZone) ==
    Truthy(domainName)

\* if (domainName && hostedZone)
NewCertificatePath(domainName, hostedZone) ==
    Truthy(domainName) /\ TruthyObj(hostedZone)

\* else if (certificateArn)
ExistingCertificatePath(certificateArn) ==
    Truthy(certificateArn)

\* the string thrown by the final else, as the parts that are concatenated
ErrorMessage(domainName, hostedZone, certificateArn) ==
    << "parameters domainName(provided value:", domainName,
       ") + hostedZone(provided value:", hostedZone,
       ") or certificateArn(provided value:", certificateArn,
       ") are missing." >>

\* faulty variant of NewCertificate: when an ARN was supplied as well, the
\* certificate bound is the one the ARN names
NewCertificate_PrefersArn(domainName, hostedZone) ==
    [ id             |-> "certificate",
      issued         |-> ~Truthy(props.certificateArn),
      domainName     |-> domainName,
      validation     |-> "DNS",
      validationZone |-> hostedZone,
      certificateArn |-> IF Truthy(props.certificateArn)
                         THEN props.certificateArn ELSE Undefined ]

\* new Certificate(this, "certificate", {...})
NewCertificate(domainName, hostedZone) ==
    [ id             |-> "certificate",
      issued         |-> TRUE,
      domainName     |-> domainName,
      validation     |-> "DNS",
      validationZone |-> hostedZone,
      certificateArn |-> Undefined ]

\* faulty variant of FromCertificateArn: the ARN is dropped and a certificate
\* is requested instead
FromCertificateArn_Issued(certificateArn) ==
    [ id             |-> "existing certificate",
      issued         |-> TRUE,
      domainName     |-> Undefined,
      validation     |-> Undefined,
      validationZone |-> Undefined,
      certificateArn |-> Undefined ]

\* Certificate.fromCertificateArn(this, "existing certificate", certificateArn)
FromCertificateArn(certificateArn) ==
    [ id             |-> "existing certificate",
      issued         |-> FALSE,
      domainName     |-> Undefined,
      validation     |-> Undefined,
      validationZone |-> Undefined,
      certificateArn |-> certificateArn ]

\* the name a record set gets in its zone: recordName qualified by the zone
RecordSetName(recordName, zoneName) ==
    recordName \o "." \o zoneName \o "."

\* faulty variant of NewRecordSet: a CNAME record instead of an A alias
NewRecordSet_CName(domainName, hostedZone, target) ==
    [ id         |-> "cloudfront-alias-record",
      zone       |-> hostedZone,
      recordName |-> domainName,
      recordType |-> "CNAME",
      aliasTarget |-> target,
      name       |-> RecordSetName(domainName, hostedZone) ]

\* new RecordSet(this, "cloudfront-alias-record", {...})
NewRecordSet(domainName, hostedZone, target) ==
    [ id         |-> "cloudfront-alias-record",
      zone       |-> hostedZone,
      recordName |-> domainName,
      recordType |-> "A",
      aliasTarget |-> target,
      name       |-> RecordSetName(domainName, hostedZone) ]

\* a listener the load balancer declares from listener arguments
NewListener(id, lb, port, protocol, certs, action) ==
    [ id            |-> id,
      loadBalancer  |-> lb,
      port          |-> port,
      protocol      |-> protocol,
      certificates  |-> certs,
      defaultAction |-> action ]

\* this.listener = this.configureAlbListener(this.loadBalancer,
\*     props.domainName, props.hostedZone, props.certificateArn)
configureAlbListener ==
    /\ pc = "listener"
    /\ LET lb   == loadBalancer[1]
           r    == RedirectProps
           sg80 == OpenListenerPort(albSecurityGroup[1], r.sourcePort)
           http == NewListener("Redirect80To443", lb.id, r.sourcePort,
                               r.sourceProtocol, <<>>,
                               [type |-> "redirect", protocol |-> r.targetProtocol,
                                port |-> r.targetPort, targetGroups |-> <<>>])
           dn   == props.domainName
           hz   == props.hostedZone
           arn  == props.certificateArn
           https(cert) ==
               LET a == HttpsListenerProps(<< cert.id >>)
               IN  NewListener("listener", lb.id, a.port, a.protocol, a.certificates,
                               [type |-> "forward", protocol |-> Undefined,
                                port |-> 0, targetGroups |-> <<>>])
       IN
       /\ httpListener' = << http >>
       /\ IF NewCertificatePath(dn, hz)
          THEN /\ certificates' = << NewCertificate(dn, hz) >>
               /\ httpsListener' = << https(NewCertificate(dn, hz)) >>
               /\ recordSets' = << NewRecordSet(dn, hz, loadBalancer[1].id) >>
               /\ albSecurityGroup' = << OpenListenerPort(sg80, HttpsListenerProps(<<>>).port) >>
               /\ declared' = declared \o
                     << Resource("Redirect80To443", "ApplicationListener"),
                        Resource("certificate", "Certificate"),
                        Resource("listener", "ApplicationListener"),
                        Resource("cloudfront-alias-record", "RecordSet") >>
               /\ pc' = "taskdef"
               /\ error' = error
          ELSE IF ExistingCertificatePath(arn)
          THEN /\ certificates' = << FromCertificateArn(arn) >>
               /\ httpsListener' = << https(FromCertificateArn(arn)) >>
               /\ recordSets' = recordSets
               /\ albSecurityGroup' = << OpenListenerPort(sg80, HttpsListenerProps(<<>>).port) >>
               /\ declared' = declared \o
                     << Resource("Redirect80To443", "ApplicationListener"),
                        Resource("existing certificate", "Certificate"),
                        Resource("listener", "ApplicationListener") >>
               /\ pc' = "taskdef"
               /\ error' = error
          ELSE /\ error' = ErrorMessage(dn, hz, arn)
               /\ pc' = "failed"
               /\ albSecurityGroup' = << sg80 >>
               /\ declared' = Append(declared,
                                 Resource("Redirect80To443", "ApplicationListener"))
               /\ UNCHANGED <<certificates, httpsListener, recordSets>>
    /\ UNCHANGED <<untouched, props, vpc, ecsCluster, loadBalancer,
                   taskDefinition, fargateSecurityGroup, fargateService,
                   scaling, albTarget, albTargetGroup, calls>>

\* new PolicyStatement({ effect: ALLOW, resources: ["*"], actions })
AllowStatement(actions) ==
    [ effect |-> "Allow", resources |-> << "*" >>, actions |-> actions ]

\* the statement configureEcsTaskDefinition puts on the execution role
ExecutionRoleStatement ==
    AllowStatement(<< "ecr:*", "logs:CreateLogStream", "logs:PutLogEvents" >>)

\* faulty variant of EffectivePort: the port is taken as it came in
EffectivePort_AsGiven(p) == p.containerPort

\* props.containerPort || DEFAULT_PROPS.containerPort
EffectivePort(p) == OrDefault(p.containerPort, defaults.containerPort)

\* new FargateTaskDefinition(this, "initial-task-definition", {cpu,
\* memoryLimitMiB}): no family is passed, so the family is the name the library
\* makes of the task definition's path in the construct tree, which ends with
\* the DockerBackend's id and "initial-task-definition", stripped of
\* non-alphanumerics (its hash suffix, a function of the same path, and the
\* ids of the enclosing scopes are left out)
TaskFamily(constructId) == constructId \o "initialtaskdefinition"

\* faulty variant of configureEcsTaskDefinition: the family is named after the
\* application and its image
configureEcsTaskDefinition_FamilyFromImage ==
    /\ pc = "taskdef"
    /\ taskDefinition' =
         << [ id                  |-> "initial-task-definition",
              family              |-> props.appName \o "-" \o
                                      OrDefaultObj(props.initialContainerImage,
                                                   defaults.initialContainerImage),
              cpu                 |-> OrDefault(props.cpu, defaults.cpu),
              memoryLimitMiB      |-> OrDefault(props.memory, defaults.memory),
              executionRolePolicy |-> << ExecutionRoleStatement >>,
              taskRolePolicy      |-> <<>>,
              containers          |->
                << [ containerName |-> props.appName,
                     image         |-> OrDefaultObj(props.initialContainerImage,
                                                    defaults.initialContainerImage),
                     portMappings  |-> << [containerPort |-> EffectivePort(props)] >> ] >> ] >>
    /\ declared' = Append(declared,
                          Resource("initial-task-definition", "FargateTaskDefinition"))
    /\ pc' = "sg"
    /\ UNCHANGED <<untouched, props, error, vpc, ecsCluster, albSecurityGroup, loadBalancer,
                   httpListener, httpsListener, certificates, recordSets,
                   fargateSecurityGroup, fargateService,
                   scaling, albTarget, albTargetGroup, calls>>

\* const {taskDefinition, containerDefinition} = this.configureEcsTaskDefinition(props)
configureEcsTaskDefinition ==
    /\ pc = "taskdef"
    /\ taskDefinition' =
         << [ id                  |-> "initial-task-definition",
              family              |-> TaskFamily(backendId),
              cpu                 |-> OrDefault(props.cpu, defaults.cpu),
              memoryLimitMiB      |-> OrDefault(props.memory, defaults.memory),
              executionRolePolicy |-> << ExecutionRoleStatement >>,
              taskRolePolicy      |-> <<>>,
              containers          |->
                << [ containerName |-> props.appName,
                     image         |-> OrDefaultObj(props.initialContainerImage,
                                                    defaults.initialContainerImage),
                     portMappings  |-> << [containerPort |-> EffectivePort(props)] >> ] >> ] >>
    /\ declared' = Append(declared,
                          Resource("initial-task-definition", "FargateTaskDefinition"))
    /\ pc' = "sg"
    /\ UNCHANGED <<untouched, props, error, vpc, ecsCluster, albSecurityGroup, loadBalancer,
                   httpListener, httpsListener, certificates, recordSets,
                   fargateSecurityGroup, fargateService,
                   scaling, albTarget, albTargetGroup, calls>>

\* faulty variant of NeedsHealthCheckRule: the port is not compared
NeedsHealthCheckRule_Always(ingressPort) == TRUE

\* if (ingressPort !== 80): the health check needs its own rule
NeedsHealthCheckRule(ingressPort) == ingressPort # 80

\* faulty variant of FargateSecurityGroup: the rules admit any IPv4 address
\* instead of the load balancer's group
FargateSecurityGroup_AnyIpv4(vpcId, loadbalancerSG, ingressPort) ==
    LET sg    == [id |-> "fargate-sg", vpc |-> vpcId,
                  allowAllOutbound |-> TRUE, ingress |-> <<>>]
        first == AddIngressRule(sg, "0.0.0.0/0",
                                OrDefault(ingressPort, defaults.containerPort))
    IN  IF NeedsHealthCheckRule(ingressPort)
        THEN AddIngressRule(first, "0.0.0.0/0", 80)
        ELSE first

\* the group configureSecurityGroupForFargateService(vpc, loadbalancerSG, ingressPort) returns
FargateSecurityGroup(vpcId, loadbalancerSG, ingressPort) ==
    LET sg    == [id |-> "fargate-sg", vpc |-> vpcId,
                  allowAllOutbound |-> TRUE, ingress |-> <<>>]
        first == AddIngressRule(sg, loadbalancerSG,
                                OrDefault(ingressPort, defaults.containerPort))
    IN  IF NeedsHealthCheckRule(ingressPort)
        THEN AddIngressRule(first, loadbalancerSG, 80)
        ELSE first

\* securityGroup: this.configureSecurityGroupForFargateService(vpc,
\*     this.loadBalancer.connections.securityGroups[0],
\*     props.containerPort || DEFAULT_PROPS.containerPort)
configureSecurityGroupForFargateService ==
    /\ pc = "sg"
    /\ fargateSecurityGroup' =
         << FargateSecurityGroup(vpc[1].id, loadBalancer[1].securityGroups[1],
                                 EffectivePort(props)) >>
    /\ declared' = Append(declared, Resource("fargate-sg", "SecurityGroup"))
    /\ pc' = "service"
    /\ UNCHANGED <<untouched, props, error, vpc, ecsCluster, albSecurityGroup, loadBalancer,
                   httpListener, httpsListener, certificates, recordSets,
                   taskDefinition, fargateService,
                   scaling, albTarget, albTargetGroup, calls>>

\* faulty variant of NewFargateService: the constructor goes straight on to the
\* target registration, past the capacity policy
NewFargateService_NoScaling ==
    /\ pc = "service"
    /\ fargateService' =
         << [ id              |-> "fargate-service",
              cluster         |-> ecsCluster[1].id,
              taskDefinition  |-> taskDefinition[1].id,
              securityGroups  |-> << fargateSecurityGroup[1].id >>,
              platformVersion |-> "1.4.0",
              propagateTags   |-> "SERVICE",
              serviceName     |-> props.appName,
              loadBalancers   |-> <<>> ] >>
    /\ declared' = Append(declared, Resource("fargate-service", "FargateService"))
    /\ pc' = "target"
    /\ UNCHANGED <<untouched, props, error, vpc, ecsCluster, albSecurityGroup, loadBalancer,
                   httpListener, httpsListener, certificates, recordSets,
                   taskDefinition, fargateSecurityGroup,
                   scaling, albTarget, albTargetGroup, calls>>

\* this.fargateService = new FargateService(this, "fargate-service", {...})
NewFargateService ==
    /\ pc = "service"
    /\ fargateService' =
         << [ id              |-> "fargate-service",
              cluster         |-> ecsCluster[1].id,
              taskDefinition  |-> taskDefinition[1].id,
              securityGroups  |-> << fargateSecurityGroup[1].id >>,
              platformVersion |-> "1.4.0",
              propagateTags   |-> "SERVICE",
              serviceName     |-> props.appName,
              loadBalancers   |-> <<>> ] >>
    /\ declared' = Append(declared, Resource("fargate-service", "FargateService"))
    /\ pc' = "scaling"
    /\ UNCHANGED <<untouched, props, error, vpc, ecsCluster, albSecurityGroup, loadBalancer,
                   httpListener, httpsListener, certificates, recordSets,
                   taskDefinition, fargateSecurityGroup,
                   scaling, albTarget, albTargetGroup, calls>>

\* faulty variant of ScalingProps: minCapacity is not passed and the platform
\* default of one task applies
ScalingProps_NoMinimum == [minCapacity |-> 1, maxCapacity |-> 8]

\* { minCapacity: 2, maxCapacity: 8 }
ScalingProps == [minCapacity |-> 2, maxCapacity |-> 8]

\* this.scaling = this.fargateService.autoScaleTaskCount({...})
autoScaleTaskCount ==
    /\ pc = "scaling"
    /\ scaling' = << [ id |-> "TaskCount", service |-> fargateService[1].id,
                       minCapacity |-> ScalingProps.minCapacity,
                       maxCapacity |-> ScalingProps.maxCapacity ] >>
    /\ declared' = Append(declared, Resource("TaskCount", "ScalableTaskCount"))
    /\ pc' = "target"
    /\ UNCHANGED <<untouched, props, error, vpc, ecsCluster, albSecurityGroup, loadBalancer,
                   httpListener, httpsListener, certificates, recordSets,
                   taskDefinition, fargateSecurityGroup, fargateService,
                   albTarget, albTargetGroup, calls>>

\* faulty variant of loadBalancerTarget: the port is read from the props and
\* not from the container definition
loadBalancerTarget_PropsPort ==
    /\ pc = "target"
    /\ LET c == taskDefinition[1].containers[1]
       IN  albTarget' = << [ service       |-> fargateService[1].id,
                             containerName |-> c.containerName,
                             containerPort |-> props.containerPort ] >>
    /\ pc' = "addTargets"
    /\ UNCHANGED <<untouched, props, error, declared, vpc, ecsCluster, albSecurityGroup,
                   loadBalancer, httpListener, httpsListener, certificates,
                   recordSets, taskDefinition, fargateSecurityGroup,
                   fargateService, scaling, albTargetGroup, calls>>

\* this.albTarget = this.fargateService.loadBalancerTarget({...})
loadBalancerTarget ==
    /\ pc = "target"
    /\ LET c == taskDefinition[1].containers[1]
       IN  albTarget' = << [ service       |-> fargateService[1].id,
                             containerName |-> c.containerName,
                             containerPort |-> c.portMappings[1].containerPort ] >>
    /\ pc' = "addTargets"
    /\ UNCHANGED <<untouched, props, error, declared, vpc, ecsCluster, albSecurityGroup,
                   loadBalancer, httpListener, httpsListener, certificates,
                   recordSets, taskDefinition, fargateSecurityGroup,
                   fargateService, scaling, albTargetGroup, calls>>

\* addTargets is given a port and no protocol: the target group takes the
\* protocol the library derives from the port (HTTPS for 443 and 8443, HTTP
\* for 80, 8000, 8008 and 8080).  ContainerPorts holds no other port.
TargetGroupProtocol(port) ==
    IF port \in {443, 8443} THEN "HTTPS" ELSE "HTTP"

\* this.albTargetGroup = this.listener.https.addTargets("fargate-target", {...})
addTargets ==
    /\ pc = "addTargets"
    /\ albTargetGroup' =
         << [ id              |-> "fargate-target",
              listener        |-> httpsListener[1].id,
              loadBalancer    |-> httpsListener[1].loadBalancer,
              targetGroupName |-> props.appName,
              port            |-> EffectivePort(props),
              protocol        |-> TargetGroupProtocol(EffectivePort(props)),
              targetType      |-> "ip",
              targets         |-> albTarget,
              healthCheck     |-> [ enabled |-> TRUE,
                                    path    |-> props.healthCheckPath ] ] >>
    /\ httpsListener' =
         << [ httpsListener[1] EXCEPT
                !.defaultAction.targetGroups = << "fargate-target" >> ] >>
    /\ fargateService' =
         << [ fargateService[1] EXCEPT
                !.loadBalancers =
                    << [ containerName |-> albTarget[1].containerName,
                         containerPort |-> albTarget[1].containerPort,
                         targetGroup   |-> "fargate-target" ] >> ] >>
    /\ declared' = Append(declared, Resource("fargate-target", "ApplicationTargetGroup"))
    /\ pc' = "done"
    /\ UNCHANGED <<untouched, props, error, vpc, ecsCluster, albSecurityGroup, loadBalancer,
                   httpListener, certificates, recordSets, taskDefinition,
                   fargateSecurityGroup, scaling, albTarget, calls>>

----------------------------------------------------------------------------
(* The public methods of a constructed DockerBackend *)

\* faulty variant of addToTaskRolePolicy: the statement goes to the execution
\* role
addToTaskRolePolicy_ExecutionRole(td, statement) ==
    [ td EXCEPT !.executionRolePolicy = Append(@, statement) ]

\* this.taskDefinition.addToTaskRolePolicy(statement)
addToTaskRolePolicy(td, statement) ==
    [ td EXCEPT !.taskRolePolicy = Append(@, statement) ]

DynamoDBStatement == AllowStatement(<< "dynamodb:*" >>)

\* faulty variant of S3Statement: the action of the method below it
S3Statement_Sqs == AllowStatement(<< "sqs:*" >>)

S3Statement == AllowStatement(<< "s3:*" >>)

SQSStatement == AllowStatement(<< "sqs:*" >>)

SNSStatement == AllowStatement(<< "sns:*" >>)

\* what no enable*Access method touches
enableFrame ==
    UNCHANGED <<untouched, props, pc, error, declared, vpc, ecsCluster, albSecurityGroup,
                loadBalancer, httpListener, httpsListener, certificates,
                recordSets, fargateSecurityGroup, fargateService, scaling,
                albTarget, albTargetGroup>>

enableDynamoDBAccess ==
    /\ pc = "done"
    /\ Len(calls) < MaxGrants
    /\ taskDefinition' = << addToTaskRolePolicy(taskDefinition[1], DynamoDBStatement) >>
    /\ calls' = Append(calls, "enableDynamoDBAccess")
    /\ enableFrame

enableS3Access ==
    /\ pc = "done"
    /\ Len(calls) < MaxGrants
    /\ taskDefinition' = << addToTaskRolePolicy(taskDefinition[1], S3Statement) >>
    /\ calls' = Append(calls, "enableS3Access")
    /\ enableFrame

enableSQSAccess ==
    /\ pc = "done"
    /\ Len(calls) < MaxGrants
    /\ taskDefinition' = << addToTaskRolePolicy(taskDefinition[1], SQSStatement) >>
    /\ calls' = Append(calls, "enableSQSAccess")
    /\ enableFrame

enableSNSAccess ==
    /\ pc = "done"
    /\ Len(calls) < MaxGrants
    /\ taskDefinition' = << addToTaskRolePolicy(taskDefinition[1], SNSStatement) >>
    /\ calls' = Append(calls, "enableSNSAccess")
    /\ enableFrame

----------------------------------------------------------------------------

Next ==
    \/ NewVpc
    \/ NewCluster
    \/ configureAlb
    \/ configureAlbListener
    \/ configureEcsTaskDefinition
    \/ configureSecurityGroupForFargateService
    \/ NewFargateService
    \/ autoScaleTaskCount
    \/ loadBalancerTarget
    \/ addTargets
    \/ enableDynamoDBAccess
    \/ enableS3Access
    \/ enableSQSAccess
    \/ enableSNSAccess

Spec == Init /\ [][Next]_vars

----------------------------------------------------------------------------
(* A second construction *)

\* what a construction ended with: its arguments, its outcome and everything
\* it declared into its scope
Outcome ==
    [ backendId            |-> backendId,
      props                |-> props,
      pc                   |-> pc,
      error                |-> error,
      declared             |-> declared,
      vpc                  |-> vpc,
      ecsCluster           |-> ecsCluster,
      albSecurityGroup     |-> albSecurityGroup,
      loadBalancer         |-> loadBalancer,
      httpListener         |-> httpListener,
      httpsListener        |-> httpsListener,
      certificates         |-> certificates,
      recordSets           |-> recordSets,
      taskDefinition       |-> taskDefinition,
      fargateSecurityGroup |-> fargateSecurityGroup,
      fargateService       |-> fargateService,
      scaling              |-> scaling,
      albTarget            |-> albTarget,
      albTargetGroup       |-> albTargetGroup ]

\* the props a second construction is given: the same object, or one that
\* differs from it in appName, cpu, memory, containerPort or the image
Variations(p) ==
    {p} \cup { [p EXCEPT !.appName = v]               : v \in AppNames }
        \cup { [p EXCEPT !.cpu = v]                   : v \in CpuValues }
        \cup { [p EXCEPT !.memory = v]                : v \in MemoryValues }
        \cup { [p EXCEPT !.containerPort = v]         : v \in ContainerPorts }
        \cup { [p EXCEPT !.initialContainerImage = v] : v \in ContainerImages }

\* new DockerBackend(otherScope, id, props) once the first constructor has
\* returned or thrown: a fresh scope, the same module and so the same
\* DEFAULT_PROPS object
Reconstruct ==
    /\ run = 1
    /\ pc \in {"done", "failed"}
    /\ calls = <<>>
    /\ firstRun' = << Outcome >>
    /\ run' = 2
    /\ backendId' \in ConstructIds
    /\ props' \in Variations(props)
    /\ pc' = "vpc"
    /\ error' = <<>>
    /\ declared' = <<>>
    /\ vpc' = <<>>
    /\ ecsCluster' = <<>>
    /\ albSecurityGroup' = <<>>
    /\ loadBalancer' = <<>>
    /\ httpListener' = <<>>
    /\ httpsListener' = <<>>
    /\ certificates' = <<>>
    /\ recordSets' = <<>>
    /\ taskDefinition' = <<>>
    /\ fargateSecurityGroup' = <<>>
    /\ fargateService' = <<>>
    /\ scaling' = <<>>
    /\ albTarget' = <<>>
    /\ albTargetGroup' = <<>>
    /\ UNCHANGED <<defaults, calls, swpVars, dbpVars, siteVars>>

\* the statements of the constructor, and a second construction after it
NextTwice ==
    \/ NewVpc
    \/ NewCluster
    \/ configureAlb
    \/ configureAlbListener
    \/ configureEcsTaskDefinition
    \/ configureSecurityGroupForFargateService
    \/ NewFargateService
    \/ autoScaleTaskCount
    \/ loadBalancerTarget
    \/ addTargets
    \/ Reconstruct

SpecTwice == Init /\ [][NextTwice]_vars

----------------------------------------------------------------------------
(* The StaticWebsitePipeline construct *)

\* enum StaticWebsitePipelineType { SIMPLE, ANGULAR }
SIMPLE == 0
ANGULAR == 1

\* the inputs the model draws from
PipelineNames      == {"test-pipeline", "site"}
ConnectionArns     == {"arn:connection", "arn:other"}
RepositoryOwners   == {"owner", "team"}
RepositoryNames    == {"repo", "site-repo"}
RepositoryBranches == {Undefined, "main"}

StaticWebsitePipelineProps ==
    [ type                  : {SIMPLE, ANGULAR},
      pipelineName          : PipelineNames,
      bucket                : {"bucket"},
      codeStarConnectionArn : ConnectionArns,
      repository            : [ owner  : RepositoryOwners,
                                name   : RepositoryNames,
                                branch : RepositoryBranches ] ]

\* no DockerBackend is being constructed
backendIdle ==
    /\ backendId = "backend"
    /\ props = DEFAULT_PROPS
    /\ defaults = DEFAULT_PROPS
    /\ run = 1
    /\ firstRun = <<>>
    /\ pc = "idle"
    /\ error = <<>>
    /\ declared = <<>>
    /\ vpc = <<>>
    /\ ecsCluster = <<>>
    /\ albSecurityGroup = <<>>
    /\ loadBalancer = <<>>
    /\ httpListener = <<>>
    /\ httpsListener = <<>>
    /\ certificates = <<>>
    /\ recordSets = <<>>
    /\ taskDefinition = <<>>
    /\ fargateSecurityGroup = <<>>
    /\ fargateService = <<>>
    /\ scaling = <<>>
    /\ albTarget = <<>>
    /\ albTargetGroup = <<>>
    /\ calls = <<>>

\* what no statement of a StaticWebsitePipeline touches
swpFrame ==
    UNCHANGED <<swpProps, dbpVars, siteVars,
                backendId, defaults, run, firstRun, props, pc, error,
                declared, vpc, ecsCluster, albSecurityGroup, loadBalancer,
                httpListener, httpsListener, certificates, recordSets,
                taskDefinition, fargateSecurityGroup, fargateService, scaling,
                albTarget, albTargetGroup, calls>>

\* the Source stage both stage lists start with
SourceStage(p) ==
    [ stageName |-> "Source",
      actions   |-> << [ actionName    |-> "Checkout",
                         type          |-> "BitBucketSourceAction",
                         connectionArn |-> p.codeStarConnectionArn,
                         owner         |-> p.repository.owner,
                         repo          |-> p.repository.name,
                         branch        |-> p.repository.branch,
                         output        |-> "Source" ] >> ]

\* a Deploy stage that puts the artifact into the bucket
DeployStage(p, artifact) ==
    [ stageName |-> "Deploy",
      actions   |-> << [ actionName |-> "Deploy",
                         type       |-> "S3DeployAction",
                         bucket     |-> p.bucket,
                         input      |-> artifact ] >> ]

\* the Build stage of the Angular pipeline
BuildStage(project) ==
    [ stageName |-> "Build",
      actions   |-> << [ actionName |-> "Build",
                         type       |-> "CodeBuildAction",
                         project    |-> project,
                         input      |-> "Source",
                         outputs    |-> << "Deploy" >> ] >> ]

\* faulty variant of SimpleStages: the Build stage is in the simple list too
SimpleStages_WithBuild(p) ==
    << SourceStage(p), BuildStage("build-project"), DeployStage(p, "Source") >>

\* what simplePipelineStages(props) returns
SimpleStages(p) == << SourceStage(p), DeployStage(p, "Source") >>

\* faulty variant of AngularStages: the Deploy action takes the Source output
AngularStages_DeployFromSource(p, project) ==
    << SourceStage(p), BuildStage(project), DeployStage(p, "Source") >>

\* what angularPipelineStage(props) returns
AngularStages(p, project) ==
    << SourceStage(p), BuildStage(project), DeployStage(p, "Deploy") >>

\* new PipelineProject(this, "build-project", {...})
angularBuildProject ==
    [ id           |-> "build-project",
      projectName  |-> "AngularAppBuild",
      computeType  |-> "SMALL",
      buildImage   |-> "STANDARD_4_0",
      buildCommand |-> "ng build --prod=true --outputPath=dist",
      artifactsDir |-> "dist" ]

\* let stages = this.simplePipelineStages(props)
simplePipelineStages ==
    /\ swpPc = "simple"
    /\ swpStages' = SimpleStages(swpProps)
    /\ swpPc' = "type"
    /\ UNCHANGED <<swpDeclared, swpBuildProject, swpPipeline>>
    /\ swpFrame

\* if (props.type === StaticWebsitePipelineType.ANGULAR)
\*     stages = this.angularPipelineStage(props)
angularPipelineStage ==
    /\ swpPc = "type"
    /\ swpProps.type = ANGULAR
    /\ swpBuildProject' = << angularBuildProject >>
    /\ swpDeclared' = Append(swpDeclared,
                             Resource(angularBuildProject.id, "PipelineProject"))
    /\ swpStages' = AngularStages(swpProps, angularBuildProject.id)
    /\ swpPc' = "pipeline"
    /\ UNCHANGED swpPipeline
    /\ swpFrame

\* new Pipeline(this, "pipeline", {pipelineName, crossAccountKeys: false, stages}),
\* reached past the if, whether or not its body ran
NewPipeline ==
    /\ \/ swpPc = "pipeline"
       \/ swpPc = "type" /\ swpProps.type # ANGULAR
    /\ swpPipeline' = << [ id               |-> "pipeline",
                           pipelineName     |-> swpProps.pipelineName,
                           crossAccountKeys |-> FALSE,
                           stages           |-> swpStages ] >>
    /\ swpDeclared' = Append(swpDeclared, Resource("pipeline", "Pipeline"))
    /\ swpPc' = "done"
    /\ UNCHANGED <<swpStages, swpBuildProject>>
    /\ swpFrame

----------------------------------------------------------------------------
(* The DockerBackendPipeline construct *)

\* the inputs the model draws from
DbpAppNames      == {"svc", "my-app"}
DbpPipelineNames == {"svc-pipeline", "release"}

DockerBackendPipelineProps ==
    [ appName : DbpAppNames, pipelineName : DbpPipelineNames ]

\* what no statement of a DockerBackendPipeline touches
dbpFrame ==
    UNCHANGED <<dbpProps, swpVars, siteVars,
                backendId, defaults, run, firstRun, props, pc, error,
                declared, vpc, ecsCluster, albSecurityGroup, loadBalancer,
                httpListener, httpsListener, certificates, recordSets,
                taskDefinition, fargateSecurityGroup, fargateService, scaling,
                albTarget, albTargetGroup, calls>>

\* a construct of this id is already a child of the scope
HasChild(children, childId) ==
    \E i \in 1..Len(children) : children[i].id = childId

\* the error of the construct tree when a scope gets a second child of an id
DuplicateChild(childId) ==
    "There is already a Construct with name '" \o childId
        \o "' in DockerBackendPipeline"

\* new X(this, childId, ...): the child is added to the scope, or the
\* constructor throws when the scope has a child of that id
AddChild(childId, type, next) ==
    IF HasChild(dbpDeclared, childId)
    THEN /\ dbpError' = << DuplicateChild(childId) >>
         /\ dbpPc' = "failed"
         /\ UNCHANGED dbpDeclared
    ELSE /\ dbpDeclared' = Append(dbpDeclared, Resource(childId, type))
         /\ dbpPc' = next
         /\ UNCHANGED dbpError

\* const codeCommitRepo = new CodeCommitRepo(this, props.appName, {...})
NewCodeCommitRepo ==
    /\ dbpPc = "repo"
    /\ AddChild(dbpProps.appName, "CodeCommitRepository", "ecr")
    /\ dbpFrame

\* const ecrRepo = new EcrRepo(this, props.appName, {...})
NewEcrRepo ==
    /\ dbpPc = "ecr"
    /\ AddChild(dbpProps.appName, "EcrRepository", "pipeline")
    /\ dbpFrame

\* new PipelineProject(this, "build-project", {...}) of mavenBuildProject
mavenBuildProject ==
    [ id           |-> "build-project",
      projectName  |-> "MavenDockerBuild",
      computeType  |-> "SMALL",
      buildImage   |-> "STANDARD_4_0",
      buildCommand |-> "mvn clean package" ]

\* the stages the constructor writes for its Pipeline; the Deploy stage is
\* commented out in the source
DockerBackendStages(p, project) ==
    << [ stageName |-> "Source",
         actions   |-> << [ actionName |-> "Checkout",
                            type       |-> "CodeCommitSourceAction",
                            repository |-> p.appName,
                            output     |-> "Source" ] >> ],
       [ stageName |-> "Build",
         actions   |-> << [ actionName |-> "Build",
                            type       |-> "CodeBuildAction",
                            project    |-> project,
                            input      |-> "Source",
                            outputs    |-> << "Deploy" >> ] >> ] >>

----------------------------------------------------------------------------
(* The pipeline constructs together *)

\* a StaticWebsitePipeline or a DockerBackendPipeline about to run the first
\* statement of its constructor
InitPipeline ==
    /\ backendIdle
    /\ siteIdle
    /\ \/ /\ dbpIdle
          /\ swpProps \in StaticWebsitePipelineProps
          /\ swpPc = "simple"
          /\ swpStages = <<>>
          /\ swpDeclared = <<>>
          /\ swpBuildProject = <<>>
          /\ swpPipeline = <<>>
       \/ /\ swpIdle
          /\ dbpProps \in DockerBackendPipelineProps
          /\ dbpPc = "repo"
          /\ dbpError = <<>>
          /\ dbpDeclared = <<>>

NextPipeline ==
    \/ simplePipelineStages
    \/ angularPipelineStage
    \/ NewPipeline
    \/ NewCodeCommitRepo
    \/ NewEcrRepo

SpecPipeline == InitPipeline /\ [][NextPipeline]_vars

----------------------------------------------------------------------------
(* The StaticWebsite construct *)

\* enum StaticWebsiteType { SIMPLE, SPA }: SIMPLE is 0 here as well
SPA == 1

\* the inputs the model draws from
SiteNames       == {"example.com", "simple-static-website"}
SiteTypes       == {UndefinedNum, SIMPLE, SPA}
SiteHostedZones == {Undefined, "example.com"}
SiteDomainNames == {Undefined, "", "example.com", "www.example.com"}
Regions         == {"us-east-1", "eu-central-1", "${Token[AWS.Region]}"}

StaticWebsiteProps ==
    [ name       : SiteNames,
      type       : SiteTypes,
      hostedZone : SiteHostedZones,
      domainName : SiteDomainNames ]

\* constructor(scope, id, props), about to run its first statement in a stack
\* of any region
InitWebsite ==
    /\ backendIdle
    /\ swpIdle
    /\ dbpIdle
    /\ siteProps \in StaticWebsiteProps
    /\ siteRegion \in Regions
    /\ sitePc = "content"
    /\ siteDeclared = <<>>
    /\ contentBucket = <<>>
    /\ loggingBucket = <<>>
    /\ siteCertificate = <<>>
    /\ siteDistribution = <<>>
    /\ siteRecordSet = <<>>
    /\ siteErrors = <<>>

\* what no statement of a StaticWebsite touches
siteFrame ==
    UNCHANGED <<siteProps, siteRegion, swpVars, dbpVars,
                backendId, defaults, run, firstRun, props, pc, error,
                declared, vpc, ecsCluster, albSecurityGroup, loadBalancer,
                httpListener, httpsListener, certificates, recordSets,
                taskDefinition, fargateSecurityGroup, fargateService, scaling,
                albTarget, albTargetGroup, calls>>

\* the two statements createEncryptedBucket adds to the bucket policy
DenyStatements(bucketArn) ==
    << [ sid        |-> "DenyIncorrectEncryptionHeader",
         effect     |-> "Deny",
         actions    |-> << "s3:PutObject" >>,
         principals |-> << "AccountRootPrincipal" >>,
         resources  |-> << bucketArn \o "/*" >>,
         condition  |-> [ test  |-> "StringNotEquals",
                          key   |-> "s3:x-amz-server-side-encryption",
                          value |-> "AES256" ] ],
       [ sid        |-> "DenyUnencryptedObjectUploads",
         effect     |-> "Deny",
         actions    |-> << "s3:PutObject" >>,
         principals |-> << "AccountRootPrincipal" >>,
         resources  |-> << bucketArn \o "/*" >>,
         condition  |-> [ test  |-> "Null",
                          key   |-> "s3:x-amz-server-side-encryption",
                          value |-> "true" ] ] >>

\* faulty variant of createEncryptedBucket: public access is not blocked
createEncryptedBucket_Public(id, bucketName) ==
    [ id                |-> id,
      bucketName        |-> bucketName,
      blockPublicAccess |-> "NONE",
      encryption        |-> "S3_MANAGED",
      sseAlgorithm      |-> "AES256",
      policy            |-> DenyStatements("arn:aws:s3:::" \o bucketName) ]

\* private createEncryptedBucket(id, bucketName): Bucket
createEncryptedBucket(id, bucketName) ==
    [ id                |-> id,
      bucketName        |-> bucketName,
      blockPublicAccess |-> "BLOCK_ALL",
      encryption        |-> "S3_MANAGED",
      sseAlgorithm      |-> "AES256",
      policy            |-> DenyStatements("arn:aws:s3:::" \o bucketName) ]

\* this.contentBucket = this.createEncryptedBucket("content-bucket", `site-${props.name}-content`)
createContentBucket ==
    /\ sitePc = "content"
    /\ contentBucket' = << createEncryptedBucket("content-bucket",
                               "site-" \o siteProps.name \o "-content") >>
    /\ siteDeclared' = Append(siteDeclared, Resource("content-bucket", "Bucket"))
    /\ sitePc' = "logging"
    /\ UNCHANGED <<loggingBucket, siteCertificate, siteDistribution,
                   siteRecordSet, siteErrors>>
    /\ siteFrame

\* this.loggingBucket = this.createEncryptedBucket("logging-bucket", `site-${props.name}-logs`)
createLoggingBucket ==
    /\ sitePc = "logging"
    /\ loggingBucket' = << createEncryptedBucket("logging-bucket",
                               "site-" \o siteProps.name \o "-logs") >>
    /\ siteDeclared' = Append(siteDeclared, Resource("logging-bucket", "Bucket"))
    /\ sitePc' = "branch"
    /\ UNCHANGED <<contentBucket, siteCertificate, siteDistribution,
                   siteRecordSet, siteErrors>>
    /\ siteFrame

\* faulty variant of CustomDomain: the domain name is not tested
CustomDomain_ZoneOnly(p) == TruthyObj(p.hostedZone)

\* if (props.hostedZone && props.domainName)
CustomDomain(p) == TruthyObj(p.hostedZone) /\ Truthy(p.domainName)

\* const certificate = new Certificate(this, "certificate", {domainName,
\*     validation: CertificateValidation.fromDns(hostedZone)})
NewSiteCertificate ==
    /\ sitePc = "branch"
    /\ CustomDomain(siteProps)
    /\ siteCertificate' = << [ id             |-> "certificate",
                               domainName     |-> siteProps.domainName,
                               validation     |-> "DNS",
                               validationZone |-> siteProps.hostedZone ] >>
    /\ siteDeclared' = Append(siteDeclared, Resource("certificate", "Certificate"))
    /\ sitePc' = "distribution"
    /\ UNCHANGED <<contentBucket, loggingBucket, siteDistribution,
                   siteRecordSet, siteErrors>>
    /\ siteFrame

\* Duration.minutes(n), in the seconds the distribution is given
Minutes(n) == n * 60

\* faulty variant of ErrorResponses: the type is not tested
ErrorResponses_Always(type) ==
    << [ httpStatus |-> 403, responseHttpStatus |-> 200,
         responsePagePath |-> "/index.html", ttl |-> Minutes(5) ],
       [ httpStatus |-> 404, responseHttpStatus |-> 200,
         responsePagePath |-> "/index.html", ttl |-> Minutes(5) ] >>

\* let errorResponses = []; if (props.type == StaticWebsiteType.SPA) {...}
ErrorResponses(type) ==
    IF type = SPA
    THEN << [ httpStatus |-> 403, responseHttpStatus |-> 200,
              responsePagePath |-> "/index.html", ttl |-> Minutes(5) ],
            [ httpStatus |-> 404, responseHttpStatus |-> 200,
              responsePagePath |-> "/index.html", ttl |-> Minutes(5) ] >>
    ELSE <<>>

\* new Distribution(this, "distribution", {...})
Distribution(type, domainNames, certificate) ==
    [ id                   |-> "distribution",
      origin               |-> contentBucket[1].id,
      compress             |-> TRUE,
      viewerProtocolPolicy |-> "redirect-to-https",
      domainNames          |-> domainNames,
      certificate          |-> certificate,
      defaultRootObject    |-> "index.html",
      httpVersion          |-> "http2",
      logBucket            |-> loggingBucket[1].id,
      errorResponses       |-> ErrorResponses(type) ]

\* this.createCloudFrontDistribution(...), called with the domain name and the
\* certificate on the custom-domain path and with the type alone otherwise
createCloudFrontDistribution ==
    /\ \/ /\ sitePc = "distribution"
          /\ siteDistribution' =
                << Distribution(siteProps.type, << siteProps.domainName >>,
                                << siteCertificate[1].id >>) >>
          /\ sitePc' = "record"
       \/ /\ sitePc = "branch"
          /\ ~CustomDomain(siteProps)
          /\ siteDistribution' = << Distribution(siteProps.type, <<>>, <<>>) >>
          /\ sitePc' = "validate"
    /\ siteDeclared' = Append(siteDeclared, Resource("distribution", "Distribution"))
    /\ UNCHANGED <<contentBucket, loggingBucket, siteCertificate,
                   siteRecordSet, siteErrors>>
    /\ siteFrame

\* new RecordSet(this, "cloudfront-alias-record", {zone, recordName: domainName,
\*     recordType: A, target: alias of the distribution})
NewAliasRecord ==
    /\ sitePc = "record"
    /\ siteRecordSet' = << [ id          |-> "cloudfront-alias-record",
                             zone        |-> siteProps.hostedZone,
                             recordName  |-> siteProps.domainName,
                             recordType  |-> "A",
                             aliasTarget |-> siteDistribution[1].id ] >>
    /\ siteDeclared' = Append(siteDeclared,
                              Resource("cloudfront-alias-record", "RecordSet"))
    /\ sitePc' = "validate"
    /\ UNCHANGED <<contentBucket, loggingBucket, siteCertificate,
                   siteDistribution, siteErrors>>
    /\ siteFrame

\* faulty variant of ValidationErrors: every region is accepted
ValidationErrors_None(region) == <<>>

\* what validate() returns for the stack's region
ValidationErrors(region) ==
    IF region # "us-east-1"
    THEN << "The static website must be created in the region \"us-east-1\"" >>
    ELSE <<>>

\* protected validate(): string[], run over the finished construct
validate ==
    /\ sitePc = "validate"
    /\ siteErrors' = ValidationErrors(siteRegion)
    /\ sitePc' = "done"
    /\ UNCHANGED <<siteDeclared, contentBucket, loggingBucket, siteCertificate,
                   siteDistribution, siteRecordSet>>
    /\ siteFrame

NextWebsite ==
    \/ createContentBucket
    \/ createLoggingBucket
    \/ NewSiteCertificate
    \/ createCloudFrontDistribution
    \/ NewAliasRecord
    \/ validate

SpecWebsite == InitWebsite /\ [][NextWebsite]_vars

----------------------------------------------------------------------------
(* Vocabulary of the properties *)

Range(seq) == { seq[i] : i \in 1..Len(seq) }

\* the constructor returned
Resolved == pc = "done"

\* the constructor threw
Failed == pc = "failed"

\* configureAlbListener has run (it returned or it threw)
Decided == pc \notin {"vpc", "cluster", "alb", "listener"}

\* the policy allows the action on all resources
Allows(policy, action) ==
    \E i \in 1..Len(policy) :
        /\ policy[i].effect = "Allow"
        /\ "*" \in Range(policy[i].resources)
        /\ action \in Range(policy[i].actions)

\* the port the claims call effective: containerPort when supplied and
\* non-zero, 80 otherwise
ClaimedPort == IF props.containerPort \in {UndefinedNum, 0} THEN 80
               ELSE props.containerPort

----------------------------------------------------------------------------
(* C1 *)

\* C1 as stated: construction fails with the configuration error if and only
\* if certificateArn is absent and domainName or hostedZone is absent.
\* Refuted: an empty certificateArn or an empty domainName is supplied, not
\* absent, and is treated as missing.
C1_FailsIffAbsent ==
    Decided =>
        ( Failed <=>
            /\ props.certificateArn = Undefined
            /\ (props.domainName = Undefined \/ props.hostedZone = Undefined) )

\* C1 amended: construction fails with the configuration error if and only if
\* certificateArn is absent or empty and (domainName is absent or empty, or
\* hostedZone is absent); the thrown message names domainName, hostedZone and
\* certificateArn, each followed by the value that was supplied.
C1_FailsIffAbsentOrEmpty ==
    Decided =>
        /\ Failed <=>
             /\ props.certificateArn \in {Undefined, ""}
             /\ \/ props.domainName \in {Undefined, ""}
                \/ props.hostedZone = Undefined
        /\ Failed <=> error # <<>>
        /\ Failed =>
             /\ Len(error) = 7
             /\ error[1] = "parameters domainName(provided value:"
             /\ error[2] = props.domainName
             /\ error[3] = ") + hostedZone(provided value:"
             /\ error[4] = props.hostedZone
             /\ error[5] = ") or certificateArn(provided value:"
             /\ error[6] = props.certificateArn

\* C1 witness: a construction that threw on an empty domainName next to a
\* hosted zone
C1_Witness ==
    /\ Failed
    /\ props.domainName = ""
    /\ props.hostedZone # Undefined
    /\ error # <<>>

----------------------------------------------------------------------------
(* C2 *)

\* C2 as stated: when construction fails with the configuration error, the
\* VPC, the cluster, the load balancer, its security group and the redirect
\* listener are all absent: nothing has been declared.
C2_FailureDeclaresNothing ==
    Failed =>
        /\ declared = <<>>
        /\ vpc = <<>>
        /\ ecsCluster = <<>>
        /\ loadBalancer = <<>>
        /\ albSecurityGroup = <<>>
        /\ httpListener = <<>>

----------------------------------------------------------------------------
(* C3 *)

\* what C3 promises of the new-certificate path
C3_NewCertificateShape ==
    /\ ~Failed
    /\ Len(certificates) = 1
    /\ certificates[1].issued
    /\ certificates[1].validation = "DNS"
    /\ certificates[1].validationZone = props.hostedZone
    /\ Len(httpsListener) = 1
    /\ httpsListener[1].protocol = "HTTPS"
    /\ httpsListener[1].certificates = << certificates[1].id >>
    /\ Len(recordSets) = 1
    /\ recordSets[1].recordType = "A"
    /\ recordSets[1].zone = props.hostedZone
    /\ Len(loadBalancer) = 1
    /\ recordSets[1].aliasTarget = loadBalancer[1].id

\* C3 as stated: every input that supplies both domainName and hostedZone
\* gets one DNS-validated new certificate, an HTTPS listener bound to it and
\* one A alias record in the zone targeting the load balancer.
\* Refuted by a supplied but empty domainName.
C3_DomainAndZoneSupplied ==
    (Decided /\ props.domainName # Undefined /\ props.hostedZone # Undefined)
        => C3_NewCertificateShape

\* C3 amended: every input that supplies a non-empty domainName and a
\* hostedZone gets one DNS-validated new certificate, an HTTPS listener bound
\* to it and one A alias record in the zone targeting the load balancer.
C3_NonEmptyDomainAndZone ==
    (Decided /\ props.domainName \notin {Undefined, ""}
             /\ props.hostedZone # Undefined)
        => C3_NewCertificateShape

\* C3 witness: a resolved construct on the new-certificate path
C3_Witness ==
    /\ Resolved
    /\ props.domainName = "api"
    /\ props.hostedZone = "example.com"
    /\ Len(recordSets) = 1
    /\ Len(certificates) = 1 /\ certificates[1].issued

----------------------------------------------------------------------------
(* C4 *)

\* what C4 promises of the existing-certificate path
C4_ExistingCertificateShape ==
    /\ ~Failed
    /\ Len(httpsListener) = 1
    /\ httpsListener[1].protocol = "HTTPS"
    /\ Len(certificates) = 1
    /\ ~certificates[1].issued
    /\ certificates[1].certificateArn = props.certificateArn
    /\ httpsListener[1].certificates = << certificates[1].id >>
    /\ recordSets = <<>>

\* C4 as stated: every input that supplies only certificateArn gets an HTTPS
\* listener bound to the referenced certificate, no new certificate and no
\* DNS record.  Refuted by a supplied but empty certificateArn.
C4_OnlyArnSupplied ==
    ( /\ Decided
      /\ props.certificateArn # Undefined
      /\ props.domainName = Undefined
      /\ props.hostedZone = Undefined )
        => C4_ExistingCertificateShape

\* C4 amended: every input that supplies only a non-empty certificateArn (no
\* domainName, no hostedZone) gets an HTTPS listener bound to the certificate
\* referenced by that ARN, no new certificate and no DNS record.
C4_OnlyNonEmptyArn ==
    ( /\ Decided
      /\ props.certificateArn \notin {Undefined, ""}
      /\ props.domainName = Undefined
      /\ props.hostedZone = Undefined )
        => C4_ExistingCertificateShape

\* C4 witness: a resolved construct built from a certificate ARN alone
C4_Witness ==
    /\ Resolved
    /\ props.certificateArn = "arn:example"
    /\ props.domainName = Undefined
    /\ props.hostedZone = Undefined
    /\ Len(httpsListener) = 1

----------------------------------------------------------------------------
(* C5 *)

\* C5 as stated: a resolved construct has exactly one certificate on its
\* HTTPS listener, issued or referenced, never both and never none; and an
\* input that supplies domainName + hostedZone together with certificateArn
\* violates the exclusivity and fails before any resource is declared.
C5_ExclusivePathsOrEarlyFailure ==
    /\ Resolved =>
         /\ Len(httpsListener) = 1
         /\ Len(httpsListener[1].certificates) = 1
         /\ Len(certificates) = 1
    /\ ( /\ Decided
         /\ props.domainName \notin {Undefined, ""}
         /\ props.hostedZone # Undefined
         /\ props.certificateArn \notin {Undefined, ""} )
       => (Failed /\ declared = <<>>)

----------------------------------------------------------------------------
(* C6 *)

\* C6 as stated: on the new-certificate path the certificate's domain name and
\* the alias record's name are the same fully-qualified name, domainName
\* qualified by the zone (api + example.com: both api.example.com).
C6_CertificateAndRecordShareName ==
    (Len(certificates) = 1 /\ certificates[1].issued /\ Len(recordSets) = 1) =>
        LET fqdn == props.domainName \o "." \o props.hostedZone
        IN  /\ recordSets[1].name = fqdn \o "."
            /\ certificates[1].domainName = fqdn

----------------------------------------------------------------------------
(* C7 *)

\* C7: in every resolved construct the service's security group has exactly
\* two ingress rules when the effective container port differs from 80 (that
\* port, then port 80) and exactly one ingress rule (port 80) when it is 80.
C7_IngressRuleCount ==
    Resolved =>
        /\ Len(fargateSecurityGroup) = 1
        /\ LET ingress == fargateSecurityGroup[1].ingress
           IN  IF ClaimedPort # 80
               THEN /\ Len(ingress) = 2
                    /\ ingress[1].port = ClaimedPort
                    /\ ingress[2].port = 80
               ELSE /\ Len(ingress) = 1
                    /\ ingress[1].port = 80

\* C7 witness: a resolved construct on port 8080 with its two rules
C7_Witness ==
    /\ Resolved
    /\ props.containerPort = 8080
    /\ Len(fargateSecurityGroup[1].ingress) = 2

----------------------------------------------------------------------------
(* C8 *)

\* C8: in every resolved construct every ingress rule of the service's
\* security group has the load balancer's security group as its source (no IP
\* range, not the service's own group), the two groups differ, no port other
\* than the effective port and 80 is admitted, and all outbound traffic is
\* allowed.
C8_IngressOnlyFromLoadBalancer ==
    Resolved =>
        LET sg    == fargateSecurityGroup[1]
            albSg == loadBalancer[1].securityGroups[1]
        IN  /\ fargateService[1].securityGroups = << sg.id >>
            /\ albSg = albSecurityGroup[1].id
            /\ sg.id # albSg
            /\ Len(sg.ingress) >= 1
            /\ \A i \in 1..Len(sg.ingress) :
                   /\ sg.ingress[i].peer = albSg
                   /\ sg.ingress[i].peer # "0.0.0.0/0"
                   /\ sg.ingress[i].peer # sg.id
                   /\ sg.ingress[i].port \in {ClaimedPort, 80}
            /\ sg.allowAllOutbound

\* C8 witness: a resolved construct whose service group admits the load
\* balancer's group on port 443 and on port 80
C8_Witness ==
    /\ Resolved
    /\ props.containerPort = 443
    /\ fargateSecurityGroup[1].ingress =
         << [peer |-> "alb-sg", port |-> 443], [peer |-> "alb-sg", port |-> 80] >>

----------------------------------------------------------------------------
(* C9 *)

\* C9: in every resolved construct the secure listener is on port 443 with
\* protocol HTTPS, the redirect listener is on port 80 with protocol HTTP and
\* redirects to port 443 / HTTPS, and both belong to the construct's load
\* balancer, on both certificate paths and for every container port.
C9_ListenerPorts ==
    Resolved =>
        /\ Len(httpsListener) = 1
        /\ httpsListener[1].port = 443
        /\ httpsListener[1].protocol = "HTTPS"
        /\ httpsListener[1].loadBalancer = loadBalancer[1].id
        /\ Len(httpListener) = 1
        /\ httpListener[1].port = 80
        /\ httpListener[1].protocol = "HTTP"
        /\ httpListener[1].defaultAction.type = "redirect"
        /\ httpListener[1].defaultAction.port = 443
        /\ httpListener[1].defaultAction.protocol = "HTTPS"
        /\ httpListener[1].loadBalancer = loadBalancer[1].id

\* C9 witness: a resolved construct on the existing-certificate path whose
\* container itself listens on 443
C9_Witness ==
    /\ Resolved
    /\ props.containerPort = 443
    /\ ~certificates[1].issued
    /\ httpsListener[1].port = 443
    /\ httpListener[1].port = 80

----------------------------------------------------------------------------
(* C10 *)

\* the enable method of each action prefix
GrantMethod ==
    [ a \in {"dynamodb:*", "s3:*", "sqs:*", "sns:*"} |->
        CASE a = "dynamodb:*" -> "enableDynamoDBAccess"
          [] a = "s3:*"       -> "enableS3Access"
          [] a = "sqs:*"      -> "enableSQSAccess"
          [] a = "sns:*"      -> "enableSNSAccess" ]

\* C10: right after construction the task role has no statement granting
\* dynamodb:*, s3:*, sqs:* or sns:*; after any sequence of enable*Access calls
\* the task role policy allows X:* on all resources if and only if the enable
\* method for X was called at least once, whatever else was enabled and in
\* whatever order.
C10_GrantIffEnabled ==
    Len(taskDefinition) = 1 =>
        /\ \A a \in DOMAIN GrantMethod :
               Allows(taskDefinition[1].taskRolePolicy, a)
                   <=> GrantMethod[a] \in Range(calls)
        /\ calls = <<>> => taskDefinition[1].taskRolePolicy = <<>>

\* C10 witness: S3 enabled twice around DynamoDB, SQS and SNS never
C10_Witness ==
    /\ Resolved
    /\ calls = << "enableS3Access", "enableDynamoDBAccess", "enableS3Access" >>
    /\ Allows(taskDefinition[1].taskRolePolicy, "s3:*")
    /\ Allows(taskDefinition[1].taskRolePolicy, "dynamodb:*")
    /\ ~Allows(taskDefinition[1].taskRolePolicy, "sqs:*")

----------------------------------------------------------------------------
(* C11 *)

\* the container the task definition declares
C11_Container == taskDefinition[1].containers[1]

\* C11 as stated: each of cpu, memory, containerPort and initialContainerImage
\* that is supplied is used as given in the task definition and port mapping,
\* and each that is omitted takes its default (512, 1024, 80, nginx).
\* Refuted by a supplied 0, which is replaced by the default.
C11_SuppliedUsedAsGiven ==
    Len(taskDefinition) = 1 =>
        /\ taskDefinition[1].cpu =
             IF props.cpu = UndefinedNum THEN 512 ELSE props.cpu
        /\ taskDefinition[1].memoryLimitMiB =
             IF props.memory = UndefinedNum THEN 1024 ELSE props.memory
        /\ C11_Container.portMappings =
             << [containerPort |->
                   IF props.containerPort = UndefinedNum THEN 80
                   ELSE props.containerPort] >>
        /\ C11_Container.image =
             IF props.initialContainerImage = Undefined THEN "nginx"
             ELSE props.initialContainerImage

\* C11 amended: each of cpu, memory and containerPort that is supplied and not
\* 0, and an initialContainerImage that is supplied, is used as given in the
\* task definition and port mapping; each that is omitted, and a cpu, memory or
\* containerPort of 0, takes its default: cpu 512, memory 1024 MiB, container
\* port 80, image nginx.
C11_NonZeroUsedAsGiven ==
    Len(taskDefinition) = 1 =>
        /\ taskDefinition[1].cpu =
             IF props.cpu \in {UndefinedNum, 0} THEN 512 ELSE props.cpu
        /\ taskDefinition[1].memoryLimitMiB =
             IF props.memory \in {UndefinedNum, 0} THEN 1024 ELSE props.memory
        /\ C11_Container.portMappings = << [containerPort |-> ClaimedPort] >>
        /\ C11_Container.image =
             IF props.initialContainerImage = Undefined THEN "nginx"
             ELSE props.initialContainerImage

\* C11 witness: a resolved construct given cpu 0 and memory 2048 on port 8080,
\* which runs with the default cpu and the supplied memory and port
C11_Witness ==
    /\ Resolved
    /\ props.cpu = 0 /\ props.memory = 2048 /\ props.containerPort = 8080
    /\ props.initialContainerImage = "httpd"
    /\ taskDefinition[1].cpu = 512
    /\ taskDefinition[1].memoryLimitMiB = 2048
    /\ C11_Container.portMappings[1].containerPort = 8080

----------------------------------------------------------------------------
(* C12 *)

\* C12 as stated: when healthCheckPath is omitted the resolver itself sets the
\* target group's health-check path to "/"; when it is supplied the path is
\* exactly the supplied value.
C12_HealthCheckPathDefaulted ==
    Len(albTargetGroup) = 1 =>
        albTargetGroup[1].healthCheck.path =
            IF props.healthCheckPath = Undefined THEN "/"
            ELSE props.healthCheckPath

----------------------------------------------------------------------------
(* C13 *)

\* C13 as stated: for every container port (443 and 8443 included) the
\* service's target group has health checks enabled, port equal to the
\* effective container port, target type ip and protocol plaintext HTTP.
C13_TargetGroupPlainHttp ==
    Len(albTargetGroup) = 1 =>
        /\ albTargetGroup[1].healthCheck.enabled
        /\ albTargetGroup[1].port = ClaimedPort
        /\ albTargetGroup[1].targetType = "ip"
        /\ albTargetGroup[1].protocol = "HTTP"

----------------------------------------------------------------------------
(* C14 *)

\* C14: every resolved construct has exactly one capacity policy on its
\* service, with minimum replica count 2 and maximum replica count 8, so that
\* minimum <= maximum and the minimum is not the platform default.
C14_OneCapacityPolicy ==
    Resolved =>
        /\ Len(scaling) = 1
        /\ Cardinality({ i \in 1..Len(declared) :
                           declared[i].type = "ScalableTaskCount" }) = 1
        /\ scaling[1].service = fargateService[1].id
        /\ scaling[1].minCapacity = 2
        /\ scaling[1].maxCapacity = 8
        /\ scaling[1].minCapacity <= scaling[1].maxCapacity

\* C14 witness: a resolved construct, after enable calls, with its policy
C14_Witness ==
    /\ Resolved
    /\ Len(calls) = 2
    /\ Len(scaling) = 1
    /\ scaling[1].minCapacity = 2 /\ scaling[1].maxCapacity = 8

----------------------------------------------------------------------------
(* C15 *)

\* the permission statements of a task definition, as sets
C15_Statements(td) ==
    IF td = <<>> THEN <<>>
    ELSE << Range(td[1].executionRolePolicy), Range(td[1].taskRolePolicy) >>

\* the ingress rules of an optional security group
C15_Rules(sg) == IF sg = <<>> THEN <<>> ELSE sg[1].ingress

\* a second construction from the same props has ended as the first did
C15_SameResult ==
    (run = 2 /\ pc \in {"done", "failed"} /\ props = firstRun[1].props) =>
        /\ pc = firstRun[1].pc
        /\ error = firstRun[1].error
        /\ Len(httpListener) + Len(httpsListener) =
             Len(firstRun[1].httpListener) + Len(firstRun[1].httpsListener)
        /\ C15_Rules(albSecurityGroup) = C15_Rules(firstRun[1].albSecurityGroup)
        /\ C15_Rules(fargateSecurityGroup) =
             C15_Rules(firstRun[1].fargateSecurityGroup)
        /\ C15_Statements(taskDefinition) =
             C15_Statements(firstRun[1].taskDefinition)
        /\ declared = firstRun[1].declared
        /\ backendId = firstRun[1].backendId => Outcome = firstRun[1]

----------------------------------------------------------------------------
(* C16 *)

\* both constructions have declared their task definition
C16_BothDeclared ==
    /\ run = 2
    /\ Len(taskDefinition) = 1
    /\ Len(firstRun[1].taskDefinition) = 1

\* the two constructions are of the same application
C16_SameApplication == props.appName = firstRun[1].props.appName

----------------------------------------------------------------------------
(* C17 *)

\* C17: in every resolved construct the cluster name, the load balancer name,
\* the service name, the target group name and the container name all equal
\* the supplied appName.
C17_NamesEqualAppName ==
    Resolved =>
        /\ ecsCluster[1].clusterName = props.appName
        /\ loadBalancer[1].loadBalancerName = props.appName
        /\ fargateService[1].serviceName = props.appName
        /\ albTargetGroup[1].targetGroupName = props.appName
        /\ Len(taskDefinition[1].containers) = 1
        /\ taskDefinition[1].containers[1].containerName = props.appName

\* C17 witness: a resolved construct named docker-backend
C17_Witness ==
    /\ Resolved
    /\ props.appName = "docker-backend"
    /\ ecsCluster[1].clusterName = "docker-backend"
    /\ albTargetGroup[1].targetGroupName = "docker-backend"
    /\ taskDefinition[1].containers[1].containerName = "docker-backend"

----------------------------------------------------------------------------
(* C18 *)

\* C18: every resolved construct has exactly one load balancer, internet-facing
\* and of type application, attached to one security group that allows all
\* outbound traffic and allows inbound TCP from any IPv4 address on port 443
\* and on port 80 and on no other port.
C18_PublicLoadBalancer ==
    Resolved =>
        /\ Len(loadBalancer) = 1
        /\ Cardinality({ i \in 1..Len(declared) :
                           declared[i].type = "ApplicationLoadBalancer" }) = 1
        /\ loadBalancer[1].internetFacing
        /\ loadBalancer[1].type = "application"
        /\ Len(albSecurityGroup) = 1
        /\ loadBalancer[1].securityGroups = << albSecurityGroup[1].id >>
        /\ albSecurityGroup[1].allowAllOutbound
        /\ Len(albSecurityGroup[1].ingress) = 2
        /\ Range(albSecurityGroup[1].ingress) =
             { [peer |-> "0.0.0.0/0", port |-> 443],
               [peer |-> "0.0.0.0/0", port |-> 80] }

\* C18 witness: a resolved construct on the new-certificate path whose load
\* balancer group admits the world on 443 and on 80
C18_Witness ==
    /\ Resolved
    /\ certificates[1].issued
    /\ loadBalancer[1].internetFacing
    /\ [peer |-> "0.0.0.0/0", port |-> 80] \in Range(albSecurityGroup[1].ingress)
    /\ [peer |-> "0.0.0.0/0", port |-> 443] \in Range(albSecurityGroup[1].ingress)

----------------------------------------------------------------------------
(* C19 *)

\* C19: in every resolved construct the HTTPS listener's default action
\* forwards to exactly one target group, that target group is attached to the
\* construct's load balancer, and the Fargate service is registered in that
\* same target group with container name appName and container port equal to
\* the effective container port; nothing is registered on the redirect
\* listener.
C19_ServiceBehindHttpsListener ==
    Resolved =>
        /\ httpsListener[1].defaultAction.type = "forward"
        /\ Len(httpsListener[1].defaultAction.targetGroups) = 1
        /\ Len(albTargetGroup) = 1
        /\ httpsListener[1].defaultAction.targetGroups = << albTargetGroup[1].id >>
        /\ albTargetGroup[1].listener = httpsListener[1].id
        /\ albTargetGroup[1].loadBalancer = loadBalancer[1].id
        /\ Len(albTargetGroup[1].targets) = 1
        /\ albTargetGroup[1].targets[1].service = fargateService[1].id
        /\ fargateService[1].loadBalancers =
             << [ containerName |-> props.appName,
                  containerPort |-> ClaimedPort,
                  targetGroup   |-> albTargetGroup[1].id ] >>
        /\ httpListener[1].defaultAction.type = "redirect"
        /\ httpListener[1].defaultAction.targetGroups = <<>>

\* C19 witness: a resolved construct on port 8443 whose service is registered
\* behind the HTTPS listener
C19_Witness ==
    /\ Resolved
    /\ props.containerPort = 8443
    /\ httpsListener[1].defaultAction.targetGroups = << "fargate-target" >>
    /\ fargateService[1].loadBalancers[1].containerPort = 8443
    /\ fargateService[1].loadBalancers[1].targetGroup = "fargate-target"

----------------------------------------------------------------------------
(* C20 *)

\* the stage and action names of a stage list, in order
C20_StageNames(stages) ==
    [ i \in 1..Len(stages) |->
        << stages[i].stageName,
           [ j \in 1..Len(stages[i].actions) |-> stages[i].actions[j].actionName ] >> ]

\* C20: a constructed StaticWebsitePipeline declares one pipeline named
\* pipelineName whose stage list is exactly Source(Checkout), Deploy(Deploy)
\* when type is SIMPLE and exactly Source(Checkout), Build(Build),
\* Deploy(Deploy) when type is ANGULAR; a build project is declared only for
\* ANGULAR.
C20_StagesByType ==
    swpPc = "done" =>
        /\ Len(swpPipeline) = 1
        /\ Cardinality({ i \in 1..Len(swpDeclared) :
                           swpDeclared[i].type = "Pipeline" }) = 1
        /\ swpPipeline[1].pipelineName = swpProps.pipelineName
        /\ swpProps.type = SIMPLE =>
             /\ C20_StageNames(swpPipeline[1].stages) =
                  << << "Source", << "Checkout" >> >>,
                     << "Deploy", << "Deploy" >> >> >>
             /\ swpBuildProject = <<>>
             /\ \A i \in 1..Len(swpDeclared) :
                    swpDeclared[i].type # "PipelineProject"
        /\ swpProps.type = ANGULAR =>
             /\ C20_StageNames(swpPipeline[1].stages) =
                  << << "Source", << "Checkout" >> >>,
                     << "Build", << "Build" >> >>,
                     << "Deploy", << "Deploy" >> >> >>
             /\ Len(swpBuildProject) = 1
             /\ swpPipeline[1].stages[2].actions[1].project = swpBuildProject[1].id

\* C20 witness: a constructed simple pipeline, two stages and no build project
C20_Witness ==
    /\ swpPc = "done"
    /\ swpProps.type = SIMPLE
    /\ swpProps.pipelineName = "test-pipeline"
    /\ Len(swpPipeline[1].stages) = 2
    /\ swpBuildProject = <<>>

----------------------------------------------------------------------------
(* C21 *)

\* the StaticWebsite constructor has returned
SiteConstructed == sitePc \in {"validate", "done"}

\* the custom-domain shape: a DNS-validated certificate for domainName, a
\* distribution aliased to domainName using it, an A alias record named
\* domainName pointing at the distribution
C21_CustomDomainShape ==
    /\ Len(siteCertificate) = 1
    /\ siteCertificate[1].domainName = siteProps.domainName
    /\ siteCertificate[1].validation = "DNS"
    /\ siteCertificate[1].validationZone = siteProps.hostedZone
    /\ Len(siteDistribution) = 1
    /\ siteDistribution[1].domainNames = << siteProps.domainName >>
    /\ siteDistribution[1].certificate = << siteCertificate[1].id >>
    /\ Len(siteRecordSet) = 1
    /\ siteRecordSet[1].recordType = "A"
    /\ siteRecordSet[1].recordName = siteProps.domainName
    /\ siteRecordSet[1].zone = siteProps.hostedZone
    /\ siteRecordSet[1].aliasTarget = siteDistribution[1].id

\* the default-domain shape: a distribution with no alias and no certificate,
\* no certificate and no DNS record declared
C21_DefaultDomainShape ==
    /\ siteCertificate = <<>>
    /\ siteRecordSet = <<>>
    /\ Len(siteDistribution) = 1
    /\ siteDistribution[1].domainNames = <<>>
    /\ siteDistribution[1].certificate = <<>>

\* C21 as stated: the certificate, the aliased distribution and the A alias
\* record are declared if and only if both hostedZone and domainName are
\* supplied; when either is missing the distribution has no alias and no
\* certificate, there is no DNS record, and no error is raised.
\* Refuted by a supplied but empty domainName.
C21_CustomDomainIffSupplied ==
    SiteConstructed =>
        IF siteProps.hostedZone # Undefined /\ siteProps.domainName # Undefined
        THEN C21_CustomDomainShape
        ELSE C21_DefaultDomainShape

\* C21 amended: the certificate, the aliased distribution and the A alias
\* record are declared if and only if hostedZone is supplied and domainName is
\* supplied and not empty; otherwise the distribution has no alias and no
\* certificate and there is no DNS record.  The constructor raises no error on
\* either path.
C21_CustomDomainIffNonEmpty ==
    /\ SiteConstructed =>
         IF siteProps.hostedZone # Undefined
            /\ siteProps.domainName \notin {Undefined, ""}
         THEN C21_CustomDomainShape
         ELSE C21_DefaultDomainShape
    /\ sitePc # "failed"

\* C21 witness: a constructed website for www.example.com in its zone
C21_Witness ==
    /\ SiteConstructed
    /\ siteProps.domainName = "www.example.com"
    /\ siteProps.hostedZone = "example.com"
    /\ Len(siteRecordSet) = 1
    /\ siteDistribution[1].domainNames = << "www.example.com" >>

----------------------------------------------------------------------------
(* C22 *)

\* C22: the distribution has custom error responses exactly when type is SPA:
\* for SPA exactly two, mapping 403 and 404 each to response code 200 with
\* page /index.html and a TTL of 300 seconds; for SIMPLE and for an omitted
\* type none.  In every case the distribution redirects viewers to HTTPS,
\* compresses, uses HTTP/2 and has default root object index.html.
C22_ErrorResponsesIffSpa ==
    Len(siteDistribution) = 1 =>
        LET d == siteDistribution[1]
        IN  /\ IF siteProps.type = SPA
               THEN /\ Len(d.errorResponses) = 2
                    /\ d.errorResponses[1].httpStatus = 403
                    /\ d.errorResponses[2].httpStatus = 404
                    /\ \A i \in 1..2 :
                           /\ d.errorResponses[i].responseHttpStatus = 200
                           /\ d.errorResponses[i].responsePagePath = "/index.html"
                           /\ d.errorResponses[i].ttl = 300
               ELSE d.errorResponses = <<>>
            /\ d.viewerProtocolPolicy = "redirect-to-https"
            /\ d.compress
            /\ d.httpVersion = "http2"
            /\ d.defaultRootObject = "index.html"

\* C22 witness: a constructed single-page application on a custom domain
C22_Witness ==
    /\ SiteConstructed
    /\ siteProps.type = SPA
    /\ Len(siteRecordSet) = 1
    /\ Len(siteDistribution[1].errorResponses) = 2

----------------------------------------------------------------------------
(* C23 *)

\* C23: validation reports exactly one error, 'The static website must be
\* created in the region "us-east-1"', when the stack's region is anything
\* other than us-east-1 and no error when it is us-east-1; a website in
\* another region is never accepted.
C23_OnlyUsEast1Accepted ==
    sitePc = "done" =>
        /\ siteRegion # "us-east-1" =>
             siteErrors =
               << "The static website must be created in the region \"us-east-1\"" >>
        /\ siteRegion = "us-east-1" => siteErrors = <<>>
        /\ siteErrors = <<>> => siteRegion = "us-east-1"

\* C23 witness: a validated website in eu-central-1 with its one error
C23_Witness ==
    /\ sitePc = "done"
    /\ siteRegion = "eu-central-1"
    /\ Len(siteErrors) = 1

----------------------------------------------------------------------------
(* C24 *)

\* the bucket blocks public access, is AES256-encrypted and denies s3:PutObject
\* with a wrong and with a missing encryption header
C24_Guarded(bucket) ==
    /\ bucket.blockPublicAccess = "BLOCK_ALL"
    /\ bucket.encryption = "S3_MANAGED"
    /\ bucket.sseAlgorithm = "AES256"
    /\ LET deny == { i \in 1..Len(bucket.policy) :
                       /\ bucket.policy[i].effect = "Deny"
                       /\ bucket.policy[i].actions = << "s3:PutObject" >> }
       IN  /\ Cardinality(deny) = 2
           /\ \E i \in deny : bucket.policy[i].condition.test = "StringNotEquals"
           /\ \E i \in deny : bucket.policy[i].condition.test = "Null"
           /\ \A i \in deny :
                  /\ bucket.policy[i].condition.key = "s3:x-amz-server-side-encryption"
                  /\ bucket.policy[i].resources =
                       << "arn:aws:s3:::" \o bucket.bucketName \o "/*" >>

\* C24: on both the custom-domain and the default-domain path exactly two
\* buckets are declared, named site-<name>-content and site-<name>-logs; each
\* blocks all public access, uses S3-managed (AES256) encryption and carries
\* the two deny statements on s3:PutObject; the content bucket is the
\* distribution's origin and the logs bucket its log target.
C24_TwoGuardedBuckets ==
    SiteConstructed =>
        /\ Cardinality({ i \in 1..Len(siteDeclared) :
                           siteDeclared[i].type = "Bucket" }) = 2
        /\ Len(contentBucket) = 1 /\ Len(loggingBucket) = 1
        /\ contentBucket[1].id # loggingBucket[1].id
        /\ contentBucket[1].bucketName = "site-" \o siteProps.name \o "-content"
        /\ loggingBucket[1].bucketName = "site-" \o siteProps.name \o "-logs"
        /\ C24_Guarded(contentBucket[1])
        /\ C24_Guarded(loggingBucket[1])
        /\ siteDistribution[1].origin = contentBucket[1].id
        /\ siteDistribution[1].logBucket = loggingBucket[1].id

\* C24 witness: a constructed website on the default domain with its buckets
C24_Witness ==
    /\ SiteConstructed
    /\ siteProps.name = "example.com"
    /\ siteRecordSet = <<>>
    /\ contentBucket[1].bucketName = "site-example.com-content"
    /\ loggingBucket[1].bucketName = "site-example.com-logs"
    /\ siteDistribution[1].logBucket = "logging-bucket"

----------------------------------------------------------------------------
(* C25 *)

\* the kinds of resource declared so far, in the order of their declaration
C25_Order == [ i \in 1..Len(declared) |-> declared[i].type ]

\* the certificate, the secure listener and, with a new certificate, the alias
C25_SecureListener ==
    IF Len(recordSets) = 1
    THEN << "Certificate", "ApplicationListener", "RecordSet" >>
    ELSE << "Certificate", "ApplicationListener" >>

\* network, cluster, load balancer with its group, redirect listener
C25_FrontDoor ==
    << "Vpc", "Cluster", "SecurityGroup", "ApplicationLoadBalancer",
       "ApplicationListener" >>

\* C25 as stated: every successful resolution declares network, cluster, load
\* balancer, redirect listener, certificate with secure listener (and DNS
\* alias), task definition, service security group, service, target
\* registration and capacity policy in this order, the capacity policy last.
\* Refuted: the capacity policy is declared before the target registration.
C25_CapacityPolicyLast ==
    Resolved =>
        C25_Order = C25_FrontDoor \o C25_SecureListener \o
                    << "FargateTaskDefinition", "SecurityGroup", "FargateService",
                       "ApplicationTargetGroup", "ScalableTaskCount" >>

\* C25 amended: every successful resolution declares network, cluster, load
\* balancer, redirect listener, certificate with secure listener (and DNS
\* alias), task definition, service security group, service, capacity policy
\* and target registration in this order: the redirect listener before the
\* secure listener, the target registration last, after the capacity policy.
C25_TargetRegistrationLast ==
    Resolved =>
        /\ C25_Order = C25_FrontDoor \o C25_SecureListener \o
                       << "FargateTaskDefinition", "SecurityGroup", "FargateService",
                          "ScalableTaskCount", "ApplicationTargetGroup" >>
        /\ declared[5].id = httpListener[1].id
        /\ declared[7].id = httpsListener[1].id
        /\ declared[Len(declared)].id = albTargetGroup[1].id
        /\ declared[Len(declared) - 1].id = scaling[1].id

\* C25 witness: a resolved construct on the new-certificate path, whose
\* thirteen declarations end with the capacity policy and the target group
C25_Witness ==
    /\ Resolved
    /\ Len(recordSets) = 1
    /\ Len(declared) = 13
    /\ declared[12].type = "ScalableTaskCount"
    /\ declared[13].type = "ApplicationTargetGroup"

----------------------------------------------------------------------------
(* C26 *)

\* the construct is on the new-certificate path and the supplied ARN is
\* neither referenced by a certificate nor bound to a listener
C26_NewCertificateArnUnused ==
    /\ C3_NewCertificateShape
    /\ \A i \in 1..Len(certificates) :
           /\ certificates[i].issued
           /\ certificates[i].certificateArn # props.certificateArn
    /\ \A i \in 1..Len(declared) : declared[i].id # "existing certificate"
    /\ Resolved => Len(httpsListener[1].certificates) = 1

\* C26 as stated: when domainName, hostedZone and certificateArn are all
\* supplied, resolution succeeds on the new-certificate path and the supplied
\* certificateArn is never looked up or bound.  Refuted by a supplied but empty
\* domainName, which sends the construct down the existing-certificate path.
C26_AllSuppliedNewCertificate ==
    ( /\ Decided
      /\ props.domainName # Undefined
      /\ props.hostedZone # Undefined
      /\ props.certificateArn # Undefined )
        => C26_NewCertificateArnUnused

\* C26 amended: when a non-empty domainName, a hostedZone and a certificateArn
\* are all supplied, resolution succeeds on the new-certificate path: a new
\* certificate is issued and bound to the secure listener and a DNS alias
\* record is declared, while the supplied certificateArn is never looked up or
\* bound to any listener.
C26_NonEmptyDomainNewCertificate ==
    ( /\ Decided
      /\ props.domainName \notin {Undefined, ""}
      /\ props.hostedZone # Undefined
      /\ props.certificateArn # Undefined )
        => C26_NewCertificateArnUnused

\* C26 witness: a resolved construct given api, its zone and an ARN
C26_Witness ==
    /\ Resolved
    /\ props.domainName = "api"
    /\ props.hostedZone = "example.com"
    /\ props.certificateArn = "arn:example"
    /\ certificates[1].issued
    /\ Len(recordSets) = 1

----------------------------------------------------------------------------
(* C27 *)

\* C27: one effective port p is used consistently: p is containerPort when it
\* is supplied and not 0 and 80 otherwise, and the container's port mapping,
\* the first ingress rule of the service's security group, the target group's
\* port and the load-balancer target's container port all equal p.
C27_OneEffectivePort ==
    LET p == IF props.containerPort \in {UndefinedNum, 0} THEN 80
             ELSE props.containerPort
    IN  /\ Len(taskDefinition) = 1 =>
             taskDefinition[1].containers[1].portMappings = << [containerPort |-> p] >>
        /\ Len(fargateSecurityGroup) = 1 =>
             fargateSecurityGroup[1].ingress[1].port = p
        /\ Len(albTarget) = 1 => albTarget[1].containerPort = p
        /\ Len(albTargetGroup) = 1 =>
             /\ albTargetGroup[1].port = p
             /\ fargateService[1].loadBalancers[1].containerPort = p

\* C27 witness: a resolved construct given port 0, on port 80 throughout
C27_Witness ==
    /\ Resolved
    /\ props.containerPort = 0
    /\ albTargetGroup[1].port = 80
    /\ albTarget[1].containerPort = 80
    /\ fargateSecurityGroup[1].ingress[1].port = 80

----------------------------------------------------------------------------
(* C28 *)

\* the number of declared resources of a kind
C28_Count(type) ==
    Cardinality({ i \in 1..Len(declared) : declared[i].type = type })

\* the execution role has exactly its baseline statement, which is not on the
\* task role, and the construct has one resource of each kind
C28_Baseline ==
    Resolved =>
        /\ taskDefinition[1].executionRolePolicy =
             << [ effect    |-> "Allow",
                  resources |-> << "*" >>,
                  actions   |-> << "ecr:*", "logs:CreateLogStream",
                                   "logs:PutLogEvents" >> ] >>
        /\ \A a \in {"ecr:*", "logs:CreateLogStream", "logs:PutLogEvents"} :
               ~Allows(taskDefinition[1].taskRolePolicy, a)
        /\ \A t \in {"Vpc", "Cluster", "ApplicationLoadBalancer",
                     "ApplicationTargetGroup", "FargateTaskDefinition",
                     "FargateService"} : C28_Count(t) = 1

\* a step that is an enable*Access call leaves everything but the task role
\* policy as it was and adds one statement to that policy
C28_EnableStep ==
    calls' # calls =>
        /\ UNCHANGED <<props, pc, error, declared, vpc, ecsCluster,
                       albSecurityGroup, loadBalancer, httpListener,
                       httpsListener, certificates, recordSets,
                       fargateSecurityGroup, fargateService, scaling,
                       albTarget, albTargetGroup>>
        /\ taskDefinition' =
             << [ taskDefinition[1] EXCEPT
                    !.taskRolePolicy = taskDefinition'[1].taskRolePolicy ] >>
        /\ Len(taskDefinition'[1].taskRolePolicy) =
             Len(taskDefinition[1].taskRolePolicy) + 1

\* C28: each enable*Access call changes only the task role policy: the
\* execution role keeps exactly its baseline statement (allow ecr:*,
\* logs:CreateLogStream, logs:PutLogEvents on all resources), which is never
\* on the task role, and the listeners, security-group rules, target group,
\* capacity bounds and resource counts are the same before and after any
\* sequence of enable calls.
C28_EnableChangesOnlyTaskRole ==
    /\ []C28_Baseline
    /\ [][C28_EnableStep]_vars

\* C28 witness: a resolved construct after three enable calls, its execution
\* role still on the one baseline statement
C28_Witness ==
    /\ Resolved
    /\ Len(calls) = 3
    /\ Len(taskDefinition[1].taskRolePolicy) = 3
    /\ Len(taskDefinition[1].executionRolePolicy) = 1

----------------------------------------------------------------------------
(* C29 *)

\* the artifacts an action produces
C29_Produced(action) ==
    IF "output" \in DOMAIN action THEN {action.output}
    ELSE IF "outputs" \in DOMAIN action THEN Range(action.outputs)
    ELSE {}

\* the actions of a stage list as <<stage index, action index>>
C29_Actions(stages) ==
    { sa \in (1..Len(stages)) \X (1..3) : sa[2] <= Len(stages[sa[1]].actions) }

\* the stage of this name, as a sequence of none or one
C29_StageNamed(stages, name) ==
    SelectSeq(stages, LAMBDA s : s.stageName = name)

\* every input is produced in a strictly earlier stage, no artifact is
\* produced by two actions, Build takes what Source produced and Deploy what
\* Build produced, or what Source produced where there is no Build
C29_Flow(stages) ==
    LET act(sa)   == stages[sa[1]].actions[sa[2]]
        source    == C29_StageNamed(stages, "Source")
        build     == C29_StageNamed(stages, "Build")
        deploy    == C29_StageNamed(stages, "Deploy")
    IN  /\ \A sa \in C29_Actions(stages) :
               "input" \in DOMAIN act(sa) =>
                   \E sb \in C29_Actions(stages) :
                       /\ sb[1] < sa[1]
                       /\ act(sa).input \in C29_Produced(act(sb))
        /\ \A sa, sb \in C29_Actions(stages) :
               sa # sb => C29_Produced(act(sa)) \cap C29_Produced(act(sb)) = {}
        /\ \A sa \in C29_Actions(stages) :
               "outputs" \in DOMAIN act(sa) =>
                   Cardinality(Range(act(sa).outputs)) = Len(act(sa).outputs)
        /\ Len(source) = 1
        /\ Len(build) = 1 =>
               build[1].actions[1].input = source[1].actions[1].output
        /\ Len(deploy) = 1 =>
               deploy[1].actions[1].input \in
                   IF Len(build) = 1
                   THEN Range(build[1].actions[1].outputs)
                   ELSE {source[1].actions[1].output}

----------------------------------------------------------------------------
(* C30 *)

\* C30: DockerBackendPipeline construction succeeds for every appName and
\* pipelineName: the source-code repository, the image repository, the build
\* project and the pipeline are registered under pairwise distinct child
\* identifiers, so all four exist in the declared graph, and the pipeline
\* has exactly the stages Source then Build.
C30_ConstructionSucceeds ==
    /\ dbpPc # "failed"
    /\ dbpError = <<>>
    /\ dbpPc \in {"pipeline", "done"} =>
           /\ HasChild(dbpDeclared, dbpProps.appName)
           /\ Cardinality({ i \in 1..Len(dbpDeclared) :
                              dbpDeclared[i].type \in {"CodeCommitRepository",
                                                       "EcrRepository"} }) = 2
           /\ \A i, j \in 1..Len(dbpDeclared) :
                  i # j => dbpDeclared[i].id # dbpDeclared[j].id

====
